---- MODULE Spec2Model ----
(***************************************************************************)
(* Lifecycle of the proxy engine supervised by clash-nyanpasu:             *)
(* backend/tauri/src/core/clash/core.rs (Instance, CoreManager).           *)
(*                                                                         *)
(* An Instance is either Child (a CoreInstance of nyanpasu_utils, a        *)
(* kill_flag and a stated_changed_at timestamp) or Service (every          *)
(* operation is a call to the privileged service).  The engine process,    *)
(* the library's event stream, the service, the clock and the control port *)
(* are the environment: their outcomes are chosen nondeterministically.    *)
(***************************************************************************)
EXTENDS Integers, Sequences, FiniteSets, TLC

VARIABLES
    now,        \* get_current_ts(): the wall clock
    inst,       \* every Instance built by Instance::try_new, by id
    proc,       \* every engine process launched by Instance::start (Child), by id
    th,         \* the frame of every caller thread (position, locals, result)
    instance,   \* CoreManager.instance: Mutex<Option<Arc<Instance>>>, 0 is None
    svc,        \* the privileged service as seen over ipc
    verge,      \* Config::verge(): the committed settings and the draft
    seen        \* what CoreManager::status() last returned to its caller

vars == <<now, inst, proc, th, instance, svc, verge, seen>>

\* ---------------------------------------------------------------- bounds
MaxInst == 2
MaxProc == 2
MaxTime == 1
MaxRecover == 2
MaxLines == 7

\* ---------------------------------------------------------------- constants
\* update_config(): for i in 0..5
MaxAttempts == 5
\* the drain task: Vec::with_capacity(6)
ErrBufCapacity == 6

\* ---------------------------------------------------------------- values
NoneV == -1                     \* Option::None of an exit code or a signal
Codes == {NoneV, 0, 1}
Signals == {NoneV, 9, 15, 11}
Statuses == [code : Codes, signal : Signals]

CoreTypes == {"premium", "mihomo"}
NoCore == "none"

InstIds == 1..MaxInst
ProcIds == 1..MaxProc

Client == <<"client", 0>>
Runners == {<<"run", 1>>, <<"run", 2>>}
Changer == <<"change", 0>>
Reader == <<"status", 0>>
Updater == <<"update", 0>>
Recoverers == {<<"recover", k>> : k \in 1..MaxRecover}
Tray == <<"tray", 0>>
Threads == {Client, Changer, Reader, Updater, Tray} \cup Runners \cup Recoverers

\* ---------------------------------------------------------------- records
NoInst == [kind |-> "None", core_type |-> NoCore, kill_flag |-> FALSE,
           stated_changed_at |-> 0, state |-> "Stopped", slot |-> "never"]

\* no exit status observed
NoStatus == [code |-> -2, signal |-> -2]

NoProc == [inst |-> 0, alive |-> FALSE, cp |-> FALSE, dpc |-> "none",
           evq |-> <<>>, chan |-> <<>>, rx |-> "open",
           term |-> "none", flag |-> FALSE, closed |-> FALSE,
           recovers |-> 0, killed |-> FALSE,
           lines |-> 0, ended |-> FALSE, err_buf |-> <<>>, logged |-> <<>>,
           spun |-> FALSE, status |-> NoStatus]

\* a caller that fixed no filesystem, and a lookup not made
AnyFs == [dataDir |-> "any", data |-> {}, installDir |-> "any", install |-> {}]
NotLooked == [ok |-> FALSE, dir |-> "none", name |-> "none", kind |-> "none", msg |-> "none"]

\* diff_proxies has not been called
NoUpdate == [kind |-> "none", actions |-> <<>>]

IdleFrame == [pc |-> "idle", inst |-> 0, proc |-> 0, res |-> "none",
              stk |-> <<>>, state |-> "none", log |-> <<>>, rstate |-> "none",
              arg |-> "none", err |-> "none", rollback |-> "none", i |-> 0,
              fs |-> AnyFs, found |-> NotLooked,
              old_proxies |-> <<>>, new_proxies |-> <<>>, update |-> NoUpdate]

Ev(type) == [type |-> type]

\* the calls made and results returned in a frame whose caller keeps a log
Logged(f, x) == IF f.log = <<>> THEN f.log ELSE Append(f.log, x)

\* number of Instances built and of processes launched so far
NInst == Cardinality({i \in InstIds : inst[i].kind # "None"})
NProc == Cardinality({p \in ProcIds : proc[p].dpc # "none"})

\* ---------------------------------------------------------------- Instance
\* the Terminated branch's test of the exit status
IsAbnormal(status) ==
    status.code # 0 \/ ~(status.signal \in {9, 15})

\* the processes of Instance i that are alive
Alive(i) == {p \in ProcIds : proc[p].inst = i /\ proc[p].alive}

\* a frame calling operation op on Instance i, to continue at k
Call(f, op, i, k) ==
    [f EXCEPT !.pc = op, !.inst = i, !.stk = <<k>> \o f.stk]

\* mutant: a failed remote call reports the state the service last had
ServiceStateCached(ok, state) == state

\* Instance::state and status of a Service: the state the remote status call
\* returned, Stopped when it failed
ServiceState(ok, state) == IF ok THEN state ELSE "Stopped"

\* Instance::status of a Service: info.core_infos.state_changed_at, 0 when the
\* call failed
ServiceTs(ok, ts) == IF ok THEN ts ELSE 0

\* Instance::state: the library's state of a Child; for a Service the remote
\* status call, whose failure is reported as Stopped
StateOf(i) ==
    IF inst[i].kind = "Child" THEN inst[i].state
    ELSE ServiceState(svc.conn, svc.state)

\* the recovery thread the drain task or a failed recovery spawns
FreeRecoverers == {r \in Recoverers : th[r].pc = "idle"}
NextRecoverer == CHOOSE r \in FreeRecoverers : \A q \in FreeRecoverers : r[2] <= q[2]
SpawnRecover(frames) ==
    [frames EXCEPT ![NextRecoverer] = [IdleFrame EXCEPT !.pc = "recover"]]

\* ---- returning to the caller
\* mutant: restart() starts whatever stop() returned
RestartProceedsAlways(r) == TRUE

\* restart(): self.stop().await? lets start() follow only a successful stop()
RestartProceeds(r) == r = "ok"

\* mutant: run_core() goes on to the port check whatever stop() returned
RunProceedsAlways(r) == TRUE

\* run_core(): instance.stop().await? returns the error of stop()
RunProceeds(r) == r = "ok"

\* recover_core(): instance.stop().await? returns the error of stop()
RecoverProceeds(r) == r = "ok"

\* mutant: recover_core() schedules a retry whatever run_core() returned
RecoverRetriesAlways(r) == TRUE

\* recover_core(): if let Err(err) = self.run_core().await
RecoverRetries(r) == r # "ok"

\* change_core(): what the Err arm returns once its second run_core() returned r
RollbackResult(err, r) == IF r = "ok" THEN err ELSE r

\* A frame whose current operation returns r: r is handed to the continuation on
\* top of the stack, which is what the caller does next with no shared state
\* touched in between (the ? of restart, run_core, recover_core and change_core).
RECURSIVE Return(_, _)
Return(f, r) ==
    LET g == [f EXCEPT !.res = r, !.log = Logged(f, r)]
    IN  IF f.stk = <<>>
        THEN [g EXCEPT !.pc = "idle"]
        ELSE LET k == Head(f.stk)
                 h == [g EXCEPT !.stk = Tail(f.stk)]
             IN  CASE k = "restart_stopped" ->
                        IF RestartProceeds(r) THEN [h EXCEPT !.pc = "start"]
                        ELSE Return(h, r)
                   [] k = "run_stopped" ->
                        IF RunProceeds(r) THEN [h EXCEPT !.pc = "run_new"]
                        ELSE Return(h, r)
                   [] k = "recover_stopped" ->
                        IF RecoverProceeds(r)
                        THEN [h EXCEPT !.pc = "run", !.stk = <<"recover_ran">> \o h.stk]
                        ELSE Return(h, r)
                   [] k = "recover_ran" ->
                        IF RecoverRetries(r) THEN [h EXCEPT !.pc = "recover_sleep"]
                        ELSE Return(h, "ok")
                   [] k = "change_rolled" ->
                        Return([h EXCEPT !.rollback = r], RollbackResult(h.err, r))
                   [] OTHER -> [h EXCEPT !.pc = k]

\* ---- Instance::start
\* Child: the channel is made and the drain task spawned; Service: start_core
Start1(t) ==
    /\ th[t].pc = "start"
    /\ LET f == th[t]
           i == f.inst
           g == [f EXCEPT !.log = Logged(f, "start")]
       IN  IF inst[i].kind = "Child"
           THEN /\ NProc < MaxProc
                /\ proc' = [proc EXCEPT ![NProc + 1] =
                               [NoProc EXCEPT !.inst = i, !.dpc = "run"]]
                /\ th' = [th EXCEPT ![t] = [g EXCEPT !.pc = "start_recv",
                                                     !.proc = NProc + 1]]
                /\ UNCHANGED svc
           ELSE /\ \E ok \in {svc.conn, FALSE} :
                    IF ok
                    THEN /\ svc' = [svc EXCEPT !.state = "Running",
                                               !.state_changed_at = now]
                         /\ th' = [th EXCEPT ![t] = Return(g, "ok")]
                    ELSE /\ svc' = svc
                         /\ th' = [th EXCEPT ![t] = Return(g, "RemoteFailed")]
                /\ UNCHANGED proc
    /\ UNCHANGED <<now, inst, instance, verge, seen>>

\* the drain task awaits instance.run(); on Ok it resets kill_flag and enters
\* its loop, on Err it hands the error to start() from a spawned task
DrainRun(p) ==
    /\ proc[p].dpc = "run"
    /\ \E ok \in BOOLEAN :
        IF ok
        THEN /\ inst' = [inst EXCEPT ![proc[p].inst].kill_flag = FALSE]
             /\ proc' = [proc EXCEPT ![p].alive = TRUE, ![p].dpc = "loop"]
        ELSE /\ inst' = inst
             /\ proc' = [proc EXCEPT ![p].dpc = "done",
                                     ![p].chan = <<"SpawnError">>,
                                     ![p].term = "runerr"]
    /\ UNCHANGED <<now, th, instance, svc, verge, seen>>

\* the library: after its delay the process is Running and the checkpoint is sent
LibCheckpoint(p) ==
    /\ proc[p].alive /\ ~proc[p].cp /\ ~proc[p].ended
    /\ proc' = [proc EXCEPT ![p].cp = TRUE,
                            ![p].evq = Append(proc[p].evq, Ev("Checkpoint"))]
    /\ inst' = [inst EXCEPT ![proc[p].inst].state = "Running"]
    /\ UNCHANGED <<now, th, instance, svc, verge, seen>>

\* the library: the process ends by itself (a crash or an exit)
LibExit(p) ==
    /\ proc[p].alive /\ ~proc[p].ended
    /\ proc' = [proc EXCEPT ![p].alive = FALSE,
                            ![p].evq = Append(proc[p].evq, Ev("Terminated"))]
    /\ inst' = [inst EXCEPT ![proc[p].inst].state = "Stopped"]
    /\ UNCHANGED <<now, th, instance, svc, verge, seen>>

\* the library: the process could not be brought up (CommandEvent::Error)
LibError(p) ==
    /\ proc[p].alive /\ ~proc[p].cp /\ ~proc[p].ended
    /\ proc' = [proc EXCEPT ![p].alive = FALSE,
                            ![p].evq = Append(proc[p].evq, Ev("Error"))]
    /\ UNCHANGED <<now, inst, th, instance, svc, verge, seen>>

\* mutant: recovery is started whether or not start() took the error
ShouldRecoverAnySend(sendFailed, killFlag) == ~killFlag

\* mutant: recovery is started whatever kill_flag holds
ShouldRecoverAnyFlag(sendFailed, killFlag) == sendFailed

\* the Terminated branch: recovery is started when tx.send(Err) failed and
\* kill_flag is not set
ShouldRecover(sendFailed, killFlag) == sendFailed /\ ~killFlag

\* The drain loop takes the next event of the stream.
\* Checkpoint: the timestamp, then Ok to start().
\* Error: Err to start(), the timestamp, and the loop ends.
\* Terminated: the timestamp; a graceful status ends the loop; an abnormal one is
\* sent to start() with tx.send(Err).await, which fails at once when the receiver
\* is dropped, succeeds when the channel has room and otherwise waits for room;
\* after a failed send kill_flag decides whether the recovery thread is spawned.
\* Stdout: the line goes to the log; Stderr: the line is pushed on err_buf and
\* goes to the log.
\* observed says whether the exit status handled is kept for the observation.
DrainEvent(p, observed) ==
    /\ proc[p].dpc = "loop"
    /\ proc[p].evq # <<>>
    /\ LET e == Head(proc[p].evq)
           q == [proc[p] EXCEPT !.evq = Tail(proc[p].evq)]
           i == proc[p].inst
           closed == q.rx = "closed"
           kill_flag == inst[i].kill_flag
       IN  /\ inst' = IF e.type \in {"Stdout", "Stderr"} THEN inst
                      ELSE [inst EXCEPT ![i].stated_changed_at = now]
           /\ \/ /\ e.type = "Stdout"
                 /\ th' = th
                 /\ proc' = [proc EXCEPT ![p] =
                               [q EXCEPT !.logged = Append(q.logged, e.line)]]
              \/ /\ e.type = "Stderr"
                 /\ th' = th
                 /\ proc' = [proc EXCEPT ![p] =
                               [q EXCEPT !.err_buf = Append(q.err_buf, e.line),
                                         !.logged = Append(q.logged, e.line)]]
              \/ /\ e.type = "Checkpoint"
                 /\ th' = th
                 /\ proc' = [proc EXCEPT ![p] =
                               IF closed
                               THEN [q EXCEPT !.dpc = "done", !.term = "panic"]
                               ELSE [q EXCEPT !.chan = <<"ok">>]]
              \/ /\ e.type = "Error"
                 /\ th' = th
                 /\ proc' = [proc EXCEPT ![p] =
                               [q EXCEPT !.dpc = "done", !.term = "error",
                                         !.chan = IF closed THEN <<>>
                                                  ELSE <<"SpawnError">>]]
              \/ /\ e.type = "Terminated"
                 /\ \E status \in Statuses :
                      IF ~IsAbnormal(status)
                      THEN /\ th' = th
                           /\ proc' = [proc EXCEPT ![p] =
                                         [q EXCEPT !.dpc = "done", !.term = "graceful",
                                                   !.status = IF observed THEN status
                                                              ELSE NoStatus]]
                      ELSE LET r == [q EXCEPT !.term = "abnormal", !.closed = closed,
                                              !.flag = kill_flag,
                                              !.status = IF observed THEN status
                                                         ELSE NoStatus]
                               sent == IF closed THEN [r EXCEPT !.dpc = "done"]
                                       ELSE IF q.chan = <<>>
                                       THEN [r EXCEPT !.dpc = "done",
                                                      !.chan = <<"Terminated">>]
                                       ELSE [r EXCEPT !.dpc = "sending"]
                           IN  IF ShouldRecover(closed, kill_flag)
                               THEN /\ FreeRecoverers # {}
                                    /\ th' = SpawnRecover(th)
                                    /\ proc' = [proc EXCEPT ![p] =
                                                  [sent EXCEPT !.recovers = q.recovers + 1]]
                               ELSE /\ th' = th
                                    /\ proc' = [proc EXCEPT ![p] = sent]
    /\ UNCHANGED <<now, instance, svc, verge, seen>>

\* the drain loop, its exit status not kept
DrainRecv(p) == DrainEvent(p, FALSE)

\* the drain loop, its exit status kept
DrainObserved(p) == DrainEvent(p, TRUE)

\* the library: the process writes its next line on stdout or stderr
LibLine(p) ==
    /\ proc[p].alive /\ ~proc[p].ended
    /\ proc[p].lines < MaxLines
    /\ \E type \in {"Stdout", "Stderr"} :
          proc' = [proc EXCEPT ![p].lines = proc[p].lines + 1,
                      ![p].evq = Append(proc[p].evq,
                                        [type |-> type, line |-> proc[p].lines + 1])]
    /\ UNCHANGED <<now, inst, th, instance, svc, verge, seen>>

\* the library: the event stream ends, its sender dropped
LibClose(p) ==
    /\ proc[p].dpc = "loop" /\ ~proc[p].ended
    /\ proc' = [proc EXCEPT ![p].ended = TRUE]
    /\ UNCHANGED <<now, inst, th, instance, svc, verge, seen>>

\* the drain loop on an ended stream: rx.recv() is None, the if let does not
\* match, and the loop goes round
DrainNone(p) ==
    /\ proc[p].dpc = "loop"
    /\ proc[p].evq = <<>> /\ proc[p].ended
    /\ proc' = [proc EXCEPT ![p].spun = TRUE]
    /\ UNCHANGED <<now, inst, th, instance, svc, verge, seen>>

\* start() receives the first message; a drain task waiting for room in the
\* channel gets the permit the moment the message leaves it, so its send succeeds.
\* With the sender gone and nothing sent, recv() is None and the unwrap aborts
\* start().
StartRecv(t) ==
    /\ th[t].pc = "start_recv"
    /\ LET f == th[t]
           p == f.proc
           q == proc[p]
       IN  \/ /\ q.chan # <<>>
              /\ proc' = [proc EXCEPT ![p] =
                            IF q.dpc = "sending"
                            THEN [q EXCEPT !.dpc = "done", !.chan = <<"Terminated">>]
                            ELSE [q EXCEPT !.chan = <<>>]]
              /\ th' = [th EXCEPT ![t] = [f EXCEPT !.pc = "start_drop",
                                                   !.res = Head(q.chan)]]
           \/ /\ q.chan = <<>> /\ q.dpc = "done"
              /\ proc' = [proc EXCEPT ![p].rx = "closed"]
              /\ th' = [th EXCEPT ![t] = [IdleFrame EXCEPT !.pc = "panicked",
                                                           !.inst = f.inst,
                                                           !.proc = p]]
    /\ UNCHANGED <<now, inst, instance, svc, verge, seen>>

\* start() returns what it received and its receiver is dropped
StartDrop(t) ==
    /\ th[t].pc = "start_drop"
    /\ proc' = [proc EXCEPT ![th[t].proc].rx = "closed", ![th[t].proc].chan = <<>>]
    /\ th' = [th EXCEPT ![t] = Return(th[t], th[t].res)]
    /\ UNCHANGED <<now, inst, instance, svc, verge, seen>>

\* ---- Instance::stop
\* state() is read first.  Child: a Stopped core is refused, otherwise kill_flag
\* is stored before the process is asked to die.  Service: nothing is decided here.
\* mutant: stop() never refuses
IsStoppedNever(state) == FALSE

\* the test of stop() on the state it read
IsStopped(state) == state = "Stopped"

Stop1(t) ==
    /\ th[t].pc = "stop"
    /\ LET f == [th[t] EXCEPT !.log = Logged(th[t], "stop")]
           i == f.inst
           state == StateOf(i)
       IN  IF inst[i].kind = "Child"
           THEN IF IsStopped(state)
                THEN /\ th' = [th EXCEPT ![t] = Return(f, "AlreadyStopped")]
                     /\ inst' = inst
                ELSE /\ th' = [th EXCEPT ![t] = [f EXCEPT !.pc = "stop_kill"]]
                     /\ inst' = [inst EXCEPT ![i].kill_flag = TRUE]
           ELSE /\ th' = [th EXCEPT ![t] = [f EXCEPT !.pc = "stop_kill",
                                                     !.state = state]]
                /\ inst' = inst
    /\ UNCHANGED <<now, proc, instance, svc, verge, seen>>

\* Child: child.kill().await? and then the timestamp; Service: stop_core
Stop2(t) ==
    /\ th[t].pc = "stop_kill"
    /\ LET f == [th[t] EXCEPT !.state = "none"]
           i == f.inst
       IN  IF inst[i].kind = "Child"
           THEN /\ \E ok \in BOOLEAN :
                    IF ok
                    THEN /\ proc' = [p \in ProcIds |->
                                       IF p \in Alive(i)
                                       THEN [proc[p] EXCEPT !.alive = FALSE,
                                               !.killed = TRUE,
                                               !.evq = Append(proc[p].evq, Ev("Terminated"))]
                                       ELSE proc[p]]
                         /\ inst' = [inst EXCEPT ![i].state = "Stopped",
                                                 ![i].stated_changed_at = now]
                         /\ th' = [th EXCEPT ![t] = Return(f, "ok")]
                    ELSE /\ proc' = proc
                         /\ inst' = inst
                         /\ th' = [th EXCEPT ![t] = Return(f, "KillFailed")]
                /\ UNCHANGED svc
           ELSE /\ \E ok \in {svc.conn, FALSE} :
                    IF ok
                    THEN /\ svc' = [svc EXCEPT !.state = "Stopped",
                                               !.state_changed_at = now]
                         /\ th' = [th EXCEPT ![t] = Return(f, "ok")]
                    ELSE /\ svc' = svc
                         /\ th' = [th EXCEPT ![t] = Return(f, "RemoteFailed")]
                /\ UNCHANGED <<proc, inst>>
    /\ UNCHANGED <<now, instance, verge, seen>>

\* ---- Instance::restart
\* state() is read; a Running core is stopped first
Restart1(t) ==
    /\ th[t].pc = "restart"
    /\ LET f == [th[t] EXCEPT !.log = Logged(th[t], "restart")]
           state == StateOf(f.inst)
       IN  th' = [th EXCEPT ![t] =
                    IF state = "Running"
                    THEN Call([f EXCEPT !.rstate = state], "stop", f.inst, "restart_stopped")
                    ELSE [f EXCEPT !.pc = "start", !.rstate = state]]
    /\ UNCHANGED <<now, inst, proc, instance, svc, verge, seen>>

\* ---- the environment
\* the clock advances
Tick ==
    /\ now < MaxTime
    /\ now' = now + 1
    /\ UNCHANGED <<inst, proc, th, instance, svc, verge, seen>>

\* the service connects or disconnects, or the core it runs stops by itself
SvcChange ==
    /\ \E i \in InstIds : inst[i].kind = "Service"
    /\ \/ svc' = [svc EXCEPT !.conn = ~svc.conn]
       \/ /\ svc.state = "Running"
          /\ svc' = [svc EXCEPT !.state = "Stopped", !.state_changed_at = now]
    /\ UNCHANGED <<now, inst, proc, th, instance, verge, seen>>

\* ---- a caller of one Instance: start() once it is built, then stop() and restart()
ClientCall(t) ==
    /\ th[t].pc = "idle"
    /\ instance # 0
    /\ \E op \in {"start", "stop", "restart"} :
        /\ inst[instance].kind = "Child" =>
              (op = "start" <=> \A p \in ProcIds : proc[p].inst # instance)
        /\ op = "restart" /\ inst[instance].kind = "Child" => NProc < MaxProc
        /\ th' = [th EXCEPT ![t] = [IdleFrame EXCEPT !.pc = op, !.inst = instance,
                                                     !.log = <<"call">>]]
    /\ UNCHANGED <<now, inst, proc, instance, svc, verge, seen>>

\* ---- one Instance and its caller
\* status() has not been called; installed and of record, for the observation,
\* whether the slot had ever been filled and which Instance it held
NotSeen == [empty |-> TRUE, state |-> "Stopped", ts |-> 0, run_type |-> "Normal",
            installed |-> FALSE, of |-> 0]

InitCommon ==
    /\ now = 0
    /\ proc = [p \in ProcIds |-> NoProc]
    /\ th = [t \in Threads |-> IdleFrame]
    /\ svc = [conn |-> FALSE, state |-> "Stopped", state_changed_at |-> 0]
    /\ verge = [clash_core |-> "premium", draft |-> NoCore, enable_service_mode |-> {}]
    /\ seen = NotSeen

\* Instance::try_new with the run type rt
NewInstance(rt, core) ==
    IF rt = "Normal"
    THEN [NoInst EXCEPT !.kind = "Child", !.core_type = core, !.kill_flag = FALSE,
                        !.stated_changed_at = now]
    ELSE [NoInst EXCEPT !.kind = "Service", !.core_type = core]

InitInstance ==
    /\ InitCommon
    /\ \E rt \in {"Normal", "Service"} :
          inst = [i \in InstIds |-> IF i = 1 THEN NewInstance(rt, "premium") ELSE NoInst]
    /\ instance = 1

\* ---------------------------------------------------------------- Config
\* Config::verge().latest(): the draft when one is staged, else the committed data
Latest(v) == IF v.draft # NoCore THEN v.draft ELSE v.clash_core

\* Config::verge().draft().clash_core = Some(core)
Stage(v, core) == [v EXCEPT !.draft = core]

\* Config::verge().apply(): the draft becomes the committed data
Apply(v) == [v EXCEPT !.clash_core = Latest(v), !.draft = NoCore]

\* Config::verge().discard(): the draft is dropped
Discard(v) == [v EXCEPT !.draft = NoCore]

\* prepare_external_controller_port(): the port is not free while an engine that
\* passed its checkpoint holds it
PortHeld == \E p \in ProcIds : proc[p].alive /\ proc[p].cp

\* mutant: the setting alone decides, whatever the ipc state
RunTypeDefaultIgnoresIpc ==
    IF TRUE \in verge.enable_service_mode THEN "Service" ELSE "Normal"

\* impl Default for RunType
RunTypeDefault ==
    IF TRUE \in verge.enable_service_mode /\ svc.conn THEN "Service" ELSE "Normal"

\* ---------------------------------------------------------------- find_binary_path
\* core_type.get_executable_name()
ExeName(core) == IF core = "premium" THEN "clash" ELSE "mihomo"
ExeNames == {ExeName(c) : c \in CoreTypes}

\* what the lookup meets: whether each directory can be resolved and which
\* executables it holds
FsInputs ==
    {fs \in [dataDir : {"ok", "err"}, data : SUBSET ExeNames,
             installDir : {"ok", "err"}, install : SUBSET ExeNames] :
        /\ fs.dataDir = "err" => fs.data = {}
        /\ fs.installDir = "err" => fs.install = {}}

Found(dir, name) == [ok |-> TRUE, dir |-> dir, name |-> name, kind |-> "none", msg |-> "none"]
NotFound(msg) == [ok |-> FALSE, dir |-> "none", name |-> "none", kind |-> "NotFound", msg |-> msg]

\* mutant: the install directory is searched first
FindBinaryPathInstallFirst(fs, name) ==
    IF fs.dataDir = "err" THEN NotFound("app_data_dir")
    ELSE IF fs.installDir = "err" THEN NotFound("app_install_dir")
    ELSE IF name \in fs.install THEN Found("install", name)
    ELSE IF name \in fs.data THEN Found("data", name)
    ELSE NotFound(name)

\* find_binary_path: Data Dir -> Sidecar Dir; a directory that cannot be resolved
\* is a NotFound carrying that error
FindBinaryPath(fs, name) ==
    IF fs.dataDir = "err" THEN NotFound("app_data_dir")
    ELSE IF name \in fs.data THEN Found("data", name)
    ELSE IF fs.installDir = "err" THEN NotFound("app_install_dir")
    ELSE IF name \in fs.install THEN Found("install", name)
    ELSE NotFound(name)

\* the filesystems a call may meet: the one its caller fixed, or any whose data
\* directory resolves (an unresolved one differs only in the error returned)
FsOf(f) ==
    IF f.fs = AnyFs THEN {fs \in FsInputs : fs.dataDir = "ok"} ELSE {f.fs}

\* ---------------------------------------------------------------- CoreManager
\* mutant: run_core() takes the Instance out of the slot as recover_core() does
SlotAfterLoadTaken(slot) == 0

\* what instance.as_ref().cloned() under the lock leaves in the slot
SlotAfterLoad(slot) == slot

\* mutant: the new Instance is installed only into an empty slot
SlotAfterInstallKeeps(slot, new) == IF slot = 0 THEN new ELSE slot

\* *this = Some(instance.clone()) under the lock
SlotAfterInstall(slot, new) == new

\* ---- CoreManager::run_core
\* the current Instance is cloned out of the slot
Run1(t) ==
    /\ th[t].pc = "run"
    /\ th' = [th EXCEPT ![t] = [th[t] EXCEPT !.pc = "run_state", !.inst = instance,
                                             !.log = Logged(th[t], "run")]]
    /\ instance' = SlotAfterLoad(instance)
    /\ UNCHANGED <<now, inst, proc, svc, verge, seen>>

\* if it reports Running it is stopped first, and an error of stop() is returned
Run2(t) ==
    /\ th[t].pc = "run_state"
    /\ LET f == th[t]
       IN  th' = [th EXCEPT ![t] =
                    IF f.inst # 0 /\ StateOf(f.inst) = "Running"
                    THEN Call(f, "stop", f.inst, "run_stopped")
                    ELSE [f EXCEPT !.pc = "run_new"]]
    /\ UNCHANGED <<now, inst, proc, instance, svc, verge, seen>>

\* the port is prepared and Instance::try_new builds the new Instance from the
\* latest clash_core: app_data_dir()? and find_binary_path()? may fail
Run3(t) ==
    /\ th[t].pc = "run_new"
    /\ LET f == th[t]
       IN  \/ /\ th' = [th EXCEPT ![t] = Return(f, "PortUnavailable")]
              /\ inst' = inst
           \/ /\ ~PortHeld
              /\ \E fs \in FsOf(f) :
                    LET r == FindBinaryPath(fs, ExeName(Latest(verge)))
                        g == IF f.fs = AnyFs THEN f ELSE [f EXCEPT !.found = r]
                    IN  IF fs.dataDir = "err"
                        THEN /\ th' = [th EXCEPT ![t] = Return(f, "DirError")]
                             /\ inst' = inst
                        ELSE IF ~r.ok
                        THEN /\ th' = [th EXCEPT ![t] = Return(g, r.kind)]
                             /\ inst' = inst
                        ELSE /\ NInst < MaxInst
                             /\ inst' = [inst EXCEPT ![NInst + 1] =
                                           NewInstance(RunTypeDefault, Latest(verge))]
                             /\ th' = [th EXCEPT ![t] = [g EXCEPT !.pc = "run_install",
                                                                  !.inst = NInst + 1]]
    /\ UNCHANGED <<now, proc, instance, svc, verge, seen>>

\* the new Instance replaces the slot's content under the lock; start() follows
Run4(t) ==
    /\ th[t].pc = "run_install"
    /\ instance' = SlotAfterInstall(instance, th[t].inst)
    /\ inst' = [inst EXCEPT ![th[t].inst].slot = "installed"]
    /\ th' = [th EXCEPT ![t].pc = "start"]
    /\ UNCHANGED <<now, proc, svc, verge, seen>>

\* ---- CoreManager::recover_core
\* the current Instance is taken out of the slot
Recover1(t) ==
    /\ th[t].pc = "recover"
    /\ instance' = 0
    /\ inst' = [i \in InstIds |->
                 IF i = instance THEN [inst[i] EXCEPT !.slot = "taken"] ELSE inst[i]]
    /\ th' = [th EXCEPT ![t] = [th[t] EXCEPT !.pc = "recover_state", !.inst = instance,
                                             !.log = Logged(th[t], "recover")]]
    /\ UNCHANGED <<now, proc, svc, verge, seen>>

\* if it reports Running it is stopped, with ?; then run_core()
Recover2(t) ==
    /\ th[t].pc = "recover_state"
    /\ LET f == th[t]
       IN  th' = [th EXCEPT ![t] =
                    IF f.inst # 0 /\ StateOf(f.inst) = "Running"
                    THEN Call(f, "stop", f.inst, "recover_stopped")
                    ELSE Call(f, "run", f.inst, "recover_ran")]
    /\ UNCHANGED <<now, inst, proc, instance, svc, verge, seen>>

\* run_core() failed: after the 5 s sleep another recover_core() is spawned on a
\* thread of its own and this one returns Ok
Recover3(t) ==
    /\ th[t].pc = "recover_sleep"
    /\ FreeRecoverers # {}
    /\ th' = [SpawnRecover(th) EXCEPT ![t] = Return(th[t], "ok")]
    /\ UNCHANGED <<now, inst, proc, instance, svc, verge, seen>>

\* the slot has held an Instance at some time
EverInstalled == \E i \in InstIds : inst[i].slot # "never"

\* ---- CoreManager::status
Status(t) ==
    /\ t = Reader
    /\ seen' = IF instance = 0
               THEN [empty |-> TRUE, state |-> "Stopped", ts |-> 0,
                     run_type |-> RunTypeDefault,
                     installed |-> EverInstalled, of |-> 0]
               ELSE [empty |-> FALSE, state |-> StateOf(instance),
                     ts |-> IF inst[instance].kind = "Child"
                            THEN inst[instance].stated_changed_at
                            ELSE ServiceTs(svc.conn, svc.state_changed_at),
                     run_type |-> IF inst[instance].kind = "Child" THEN "Normal"
                                  ELSE "Service",
                     installed |-> EverInstalled, of |-> instance]
    /\ UNCHANGED <<now, inst, proc, th, instance, svc, verge>>

\* ---- CoreManager::change_core
\* mutant: the Err arm leaves the draft staged
AfterFailedRunKeeps(v) == v

\* the Ok arm of the match on run_core(): Config::verge().apply()
AfterRun(v) == Apply(v)

\* the Err arm: Config::verge().discard()
AfterFailedRun(v) == Discard(v)

\* a None argument is refused; otherwise the variant is staged in the draft
Chg1(t) ==
    /\ th[t].pc = "change"
    /\ IF th[t].arg = NoCore
       THEN /\ th' = [th EXCEPT ![t] = Return(th[t], "NullCore")]
            /\ verge' = verge
       ELSE /\ th' = [th EXCEPT ![t].pc = "change_check"]
            /\ verge' = Stage(verge, th[t].arg)
    /\ UNCHANGED <<now, inst, proc, instance, svc, seen>>

\* Config::generate().await? and self.check_config()?: either error is returned
\* at once; otherwise the log is cleared and run_core() is called
Chg2(t) ==
    /\ th[t].pc = "change_check"
    /\ \E r \in {"ok", "GenerateFailed", "ValidationFailure"} :
          th' = [th EXCEPT ![t] =
                   IF r = "ok" THEN Call(th[t], "run", 0, "change_ran")
                   ELSE Return(th[t], r)]
    /\ UNCHANGED <<now, inst, proc, instance, svc, verge, seen>>

\* the match on what run_core() returned: Ok commits the draft and returns Ok;
\* Err discards it and calls run_core() again, whose error is returned with ?
Chg3(t) ==
    /\ th[t].pc = "change_ran"
    /\ IF th[t].res = "ok"
       THEN /\ verge' = AfterRun(verge)
            /\ th' = [th EXCEPT ![t] = Return(th[t], "ok")]
       ELSE /\ verge' = AfterFailedRun(verge)
            /\ th' = [th EXCEPT ![t] =
                        Call([th[t] EXCEPT !.err = th[t].res], "run", 0, "change_rolled")]
    /\ UNCHANGED <<now, inst, proc, instance, svc, seen>>

\* the command that switches the engine variant, called once
ChangeCall(t) ==
    /\ th[t].pc = "idle"
    /\ th[t].res = "none"
    /\ \E core \in CoreTypes \cup {NoCore} :
          th' = [th EXCEPT ![t] = [IdleFrame EXCEPT !.pc = "change", !.arg = core]]
    /\ UNCHANGED <<now, inst, proc, instance, svc, verge, seen>>

\* a run_core() called after change_core() has returned
LaterRunCall(t) ==
    /\ th[Changer].pc = "idle"
    /\ th[Changer].res # "none"
    /\ th[t].pc = "idle"
    /\ th[t].res = "none"
    /\ th' = [th EXCEPT ![t] = [IdleFrame EXCEPT !.pc = "run"]]
    /\ UNCHANGED <<now, inst, proc, instance, svc, verge, seen>>

\* ---- callers of the CoreManager: init() or a later command calls run_core() once
RunCall(t) ==
    /\ th[t].pc = "idle"
    /\ th[t].res = "none"
    /\ th' = [th EXCEPT ![t] = [IdleFrame EXCEPT !.pc = "run"]]
    /\ UNCHANGED <<now, inst, proc, instance, svc, verge, seen>>

\* CoreManager::global(): the slot is empty and nothing has been built
InitRuns ==
    /\ InitCommon
    /\ inst = [i \in InstIds |-> NoInst]
    /\ instance = 0

\* the state init() leaves when its run_core() succeeded: a Child Instance is
\* installed, its process passed the checkpoint and start() has returned
Init ==
    /\ now = 0
    /\ th = [t \in Threads |-> IdleFrame]
    /\ svc = [conn |-> FALSE, state |-> "Stopped", state_changed_at |-> 0]
    /\ verge = [clash_core |-> "premium", draft |-> NoCore, enable_service_mode |-> {}]
    /\ seen = NotSeen
    /\ inst = [i \in InstIds |->
                 IF i = 1
                 THEN [NoInst EXCEPT !.kind = "Child", !.core_type = "premium",
                                     !.state = "Running", !.slot = "installed"]
                 ELSE NoInst]
    /\ proc = [p \in ProcIds |->
                 IF p = 1
                 THEN [NoProc EXCEPT !.inst = 1, !.alive = TRUE, !.cp = TRUE,
                                     !.dpc = "loop", !.rx = "closed"]
                 ELSE NoProc]
    /\ instance = 1

\* the engine processes, the library and the drain tasks
Engine ==
    \E p \in ProcIds :
        DrainRun(p) \/ LibCheckpoint(p) \/ LibExit(p) \/ LibError(p)
           \/ DrainRecv(p)

\* run_core() and the Instance operations it calls, by thread t
RunSteps(t) ==
    \/ Run1(t) \/ Run2(t) \/ Run3(t) \/ Run4(t)
    \/ Start1(t) \/ StartRecv(t) \/ StartDrop(t)
    \/ Stop1(t) \/ Stop2(t)

\* two callers of run_core() and a caller of status(); recovery threads are
\* spawned but do not get to run
NextRuns ==
    \/ \E t \in Runners : RunCall(t) \/ RunSteps(t)
    \/ Status(Reader)
    \/ Engine

SpecRuns == InitRuns /\ [][NextRuns]_vars

\* one caller of run_core() and the recovery threads
Next ==
    \/ RunCall(<<"run", 1>>) \/ RunSteps(<<"run", 1>>)
    \/ \E t \in Recoverers :
          Recover1(t) \/ Recover2(t) \/ Recover3(t) \/ RunSteps(t)
    \/ Engine

Spec == Init /\ [][Next]_vars

\* the same with a caller of status()
NextRead ==
    \/ Next
    \/ Status(Reader)

SpecRead == Init /\ [][NextRead]_vars

\* change_core() on the engine init() started, then one more run_core()
NextChange ==
    \/ ChangeCall(Changer)
    \/ Chg1(Changer) \/ Chg2(Changer) \/ Chg3(Changer)
    \/ RunSteps(Changer)
    \/ LaterRunCall(<<"run", 1>>) \/ RunSteps(<<"run", 1>>)
    \/ Engine

SpecChange == Init /\ [][NextChange]_vars

NextInstance ==
    \/ ClientCall(Client)
    \/ Start1(Client) \/ StartRecv(Client) \/ StartDrop(Client)
    \/ Stop1(Client) \/ Stop2(Client)
    \/ Restart1(Client)
    \/ \E p \in ProcIds :
          DrainRun(p) \/ LibCheckpoint(p) \/ LibExit(p) \/ LibError(p)
             \/ DrainRecv(p)
    \/ Tick
    \/ SvcChange

SpecInstance == InitInstance /\ [][NextInstance]_vars

\* ================================================================ claims
\* the processes whose drain task has finished handling an abnormal termination
Handled == {p \in ProcIds : proc[p].term = "abnormal"}

C2_KillFlagSuppresses ==
    \A p \in Handled : proc[p].flag => proc[p].recovers = 0

C2_Witness ==
    \E p \in Handled : proc[p].flag /\ proc[p].closed /\ proc[p].recovers = 0

\* C3 (as stated): a process ended by a deliberate stop() never triggers recover()
C3_StopNeverRecovers ==
    \A p \in ProcIds : proc[p].killed => proc[p].recovers = 0

\* a step of t that runs the first part of stop() on an Instance of kind k whose
\* state reads Stopped
StopOnStopped(t, k) ==
    /\ th[t].pc = "stop"
    /\ inst[th[t].inst].kind = k
    /\ StateOf(th[t].inst) = "Stopped"
    /\ th'[t] # th[t]

\* that step fails with AlreadyStopped and changes nothing else
Refused(t) ==
    /\ th'[t].pc # "stop_kill"
    /\ th'[t].res = "AlreadyStopped"
    /\ inst' = inst /\ proc' = proc /\ svc' = svc

\* C4 (as stated): stop() on an Instance whose state is Stopped fails with
\* AlreadyStopped, leaves kill_flag and the timestamp alone and asks for no
\* termination, locally or of the service
C4_StopOnStoppedRefused ==
    [][\A t \in Threads : \A k \in {"Child", "Service"} :
          StopOnStopped(t, k) => Refused(t)]_vars

\* C4 (amended): that holds of a Child Instance; stop() of a Service Instance goes
\* on to the service's stop_core whatever state it read
C4_ChildStopOnStoppedRefused ==
    [][\A t \in Threads :
          /\ StopOnStopped(t, "Child") => Refused(t)
          /\ StopOnStopped(t, "Service") =>
                th'[t].pc = "stop_kill" /\ inst' = inst /\ proc' = proc /\ svc' = svc]_vars

C4_Witness ==
    /\ th[Client].pc = "idle"
    /\ th[Client].log = <<"call", "stop", "AlreadyStopped">>
    /\ inst[th[Client].inst].kind = "Child"
    /\ \E p \in ProcIds : proc[p].killed

\* C5: restart() on a Running Instance calls stop() and, when that succeeded,
\* start(), returning start()'s result; a failed stop() is returned and start()
\* is not called; on a Stopped Instance only start() is called
C5_RestartIsStopThenStart ==
    \A t \in Threads :
        (th[t].pc = "idle" /\ Len(th[t].log) > 1 /\ th[t].log[2] = "restart") =>
            LET log == Tail(th[t].log)
            IN  IF th[t].rstate = "Running"
                THEN /\ log[2] = "stop"
                     /\ IF log[3] = "ok"
                        THEN Len(log) = 5 /\ log[4] = "start" /\ th[t].res = log[5]
                        ELSE Len(log) = 4 /\ th[t].res = log[3]
                ELSE Len(log) = 3 /\ log[2] = "start" /\ th[t].res = log[3]

C5_Witness ==
    /\ th[Client].pc = "idle"
    /\ th[Client].log = <<"call", "restart", "stop", "ok", "start", "ok">>
    /\ inst[th[Client].inst].kind = "Child"

\* the engine processes that passed their checkpoint and have not ended
RunningProcs == {p \in ProcIds : proc[p].alive /\ proc[p].cp}

\* C6 (as stated): in every reachable state at most one engine process launched
\* by the CoreManager is Running
C6_AtMostOneRunning ==
    Cardinality(RunningProcs) <= 1

\* C7: with two concurrent run_core() and a status() caller, a status() made once
\* the slot has held an Instance never finds the slot empty; it reports an
\* Instance that was installed
C7_StatusNeverSeesEmptied ==
    seen.installed =>
        /\ ~seen.empty
        /\ seen.of \in InstIds
        /\ inst[seen.of].slot = "installed"

C7_Witness ==
    /\ seen.installed
    /\ seen.of = 2
    /\ instance = 2
    /\ \A t \in Runners : th[t].pc \in {"start_recv", "start_drop"}

\* a step in which recover_core() on thread t returns to its caller
RecoverReturns(t) ==
    /\ th[t].pc # "idle"
    /\ th'[t].pc = "idle"

\* a step that spawns another recover_core() from thread t
RetrySpawned(t) ==
    \E r \in Recoverers \ {t} : th[r].pc = "idle" /\ th'[r].pc = "recover"

\* C8 (as stated): recover_core() never returns a failure, and when a step of it
\* failed it returns only with another recover_core() spawned
C8_RecoverNeverAbandons ==
    [][\A t \in Recoverers :
          RecoverReturns(t) =>
             /\ th'[t].res = "ok"
             /\ th[t].pc = "recover_sleep" => RetrySpawned(t)]_vars

\* a step in which change_core() returns after its first run_core() failed
ChangeReturnsAfterFailedRun ==
    /\ th[Changer].pc # "idle"
    /\ th'[Changer].pc = "idle"
    /\ th'[Changer].err # "none"

\* the slot holds an Instance of the committed variant whose process passed its
\* checkpoint
Restored ==
    /\ instance # 0
    /\ inst[instance].core_type = verge.clash_core
    /\ \E p \in ProcIds : proc[p].inst = instance /\ proc[p].cp

ValidationFailed ==
    /\ th[Changer].pc = "idle"
    /\ th[Changer].res = "ValidationFailure"

\* C10 (as stated): when check_config() fails in change_core(), the step that
\* returns touches no Instance, no process and not the slot, the committed
\* variant stays, and every Instance built afterwards is of the committed variant
C10_FailedValidationNotApplied ==
    [][/\ (th[Changer].pc = "change_check" /\ ValidationFailed') =>
             /\ inst' = inst /\ proc' = proc /\ instance' = instance
             /\ verge'.clash_core = verge.clash_core
       /\ ValidationFailed =>
             /\ verge'.clash_core = verge.clash_core
             /\ \A i \in InstIds :
                   (inst[i].kind = "None" /\ inst'[i].kind # "None") =>
                       inst'[i].core_type = verge.clash_core]_vars

\* C11 (as stated): when validation passed and the first run_core() failed,
\* change_core() returns the error of that first run_core(), whether the second
\* run_core() succeeded or failed
C11_ReturnsFirstError ==
    [][ChangeReturnsAfterFailedRun =>
          th'[Changer].res = th'[Changer].err]_vars

\* ---------------------------------------------------------------- update_config
\* the errors api::put_configs may return
PutErrors == {"PutFailedA", "PutFailedB"}

\* mutant: every failed attempt is logged and followed by the sleep
HasNextAttemptAlways(i) == TRUE

\* the Err arm of the loop: if i < 4 the error is logged, else bail!(err)
HasNextAttempt(i) == i < MaxAttempts - 1

\* the command that pushes the regenerated configuration, by a caller that logs
UpdateCall(t) ==
    /\ th[t].pc = "idle"
    /\ th[t].res = "none"
    /\ th' = [th EXCEPT ![t] = [IdleFrame EXCEPT !.pc = "update", !.log = <<"call">>]]
    /\ UNCHANGED <<now, inst, proc, instance, svc, verge, seen>>

\* Config::generate().await?, self.check_config()? and generate_file(Run)?: an
\* error is returned before any attempt; otherwise the loop starts with i = 0
Upd1(t) ==
    /\ th[t].pc = "update"
    /\ \E r \in {"ok", "GenerateFailed", "ValidationFailure"} :
          th' = [th EXCEPT ![t] =
                   IF r = "ok" THEN [th[t] EXCEPT !.pc = "update_put", !.i = 0]
                   ELSE Return(th[t], r)]
    /\ UNCHANGED <<now, inst, proc, instance, svc, verge, seen>>

\* one api::put_configs(path).await: Ok breaks out of the loop and Ok is
\* returned; Err goes on to the sleep when i < 4 and is returned otherwise
UpdPut(t) ==
    /\ th[t].pc = "update_put"
    /\ LET f == [th[t] EXCEPT !.log = Logged(th[t], "put")]
       IN  \E r \in {"ok"} \cup PutErrors :
              th' = [th EXCEPT ![t] =
                       IF r = "ok" THEN Return(f, "ok")
                       ELSE IF HasNextAttempt(f.i)
                       THEN [f EXCEPT !.pc = "update_sleep", !.log = Logged(f, r)]
                       ELSE Return(f, r)]
    /\ UNCHANGED <<now, inst, proc, instance, svc, verge, seen>>

\* sleep(250 ms) and the next i of 0..5; past the range the loop ends and Ok is
\* returned
UpdSleep(t) ==
    /\ th[t].pc = "update_sleep"
    /\ LET f == [th[t] EXCEPT !.log = Logged(th[t], "sleep"), !.i = th[t].i + 1]
       IN  th' = [th EXCEPT ![t] =
                    IF f.i < MaxAttempts THEN [f EXCEPT !.pc = "update_put"]
                    ELSE Return(f, "ok")]
    /\ UNCHANGED <<now, inst, proc, instance, svc, verge, seen>>

\* update_config() on the engine init() started
NextUpdate ==
    \/ UpdateCall(Updater)
    \/ Upd1(Updater) \/ UpdPut(Updater) \/ UpdSleep(Updater)

SpecUpdate == Init /\ [][NextUpdate]_vars

\* what update_config() did once validation passed: put, result, sleep, put, ...
Pushes == IF Len(th[Updater].log) > 1 /\ th[Updater].log[2] = "put"
          THEN Tail(th[Updater].log) ELSE <<>>

\* C12: update_config() makes at most 5 put attempts; a successful attempt is the
\* last and Ok is returned; a failed attempt before the 5th is followed by the
\* sleep and the next attempt; the 5th failure is returned and nothing follows
C12_AtMostFiveAttempts ==
    LET f == th[Updater]
        n == Len(Pushes)
        last(m) == m = n /\ f.pc = "idle"
    IN  /\ n <= 3 * MaxAttempts - 1
        /\ \A m \in 1..n :
              CASE m % 3 = 1 -> Pushes[m] = "put" /\ m < n
                [] m % 3 = 2 ->
                     IF Pushes[m] = "ok" THEN last(m) /\ f.res = "ok"
                     ELSE IF m < 3 * MaxAttempts - 1
                     THEN /\ Pushes[m] \in PutErrors
                          /\ IF m = n THEN f.pc = "update_sleep"
                             ELSE Pushes[m + 1] = "sleep"
                     ELSE Pushes[m] \in PutErrors /\ last(m) /\ f.res = Pushes[m]
                [] OTHER ->
                     /\ Pushes[m] = "sleep"
                     /\ IF m = n THEN f.pc = "update_put" ELSE Pushes[m + 1] = "put"

C12_Witness ==
    /\ th[Updater].pc = "idle"
    /\ Len(Pushes) = 3 * MaxAttempts - 1
    /\ Pushes[2] = "PutFailedA"
    /\ th[Updater].res = "PutFailedB"

\* ---------------------------------------------------------------- a Service Instance
\* the slot holds an Instance run by the service
InitService ==
    /\ InitCommon
    /\ inst = [i \in InstIds |-> IF i = 1 THEN NewInstance("Service", "premium") ELSE NoInst]
    /\ instance = 1

\* start(), stop() and restart() of it, status() of the CoreManager, the service
\* and the clock
NextService ==
    \/ ClientCall(Client)
    \/ Start1(Client) \/ Stop1(Client) \/ Stop2(Client) \/ Restart1(Client)
    \/ Status(Reader)
    \/ SvcChange
    \/ Tick

SpecService == InitService /\ [][NextService]_vars

\* a step that is a status() of the CoreManager on a Service Instance
StatusOfService ==
    /\ seen' # seen
    /\ instance # 0
    /\ inst[instance].kind = "Service"

\* a step of t in which restart() reads state() of a Service Instance
StateOfService(t) ==
    /\ th[t].pc = "restart"
    /\ th'[t] # th[t]
    /\ inst[th[t].inst].kind = "Service"

\* C13: state() and status() of a Service Instance return no error: when the
\* remote call fails state() is Stopped and status() is Stopped with timestamp 0,
\* and when it succeeds they are the service's state and timestamp at that call
C13_ServiceStatusDegrades ==
    [][/\ StatusOfService =>
             /\ ~seen'.empty
             /\ IF svc.conn
                THEN seen'.state = svc.state /\ seen'.ts = svc.state_changed_at
                ELSE seen'.state = "Stopped" /\ seen'.ts = 0
       /\ \A t \in Threads :
             StateOfService(t) =>
                 th'[t].rstate = (IF svc.conn THEN svc.state ELSE "Stopped")]_vars

C13_Witness ==
    /\ ~svc.conn
    /\ svc.state = "Running"
    /\ svc.state_changed_at = 1
    /\ seen = [NotSeen EXCEPT !.empty = FALSE, !.run_type = "Service", !.of = 1]
    /\ th[Client].pc = "start"
    /\ th[Client].rstate = "Stopped"

\* ---------------------------------------------------------------- lookup and start
\* run_core() called once under a filesystem its caller knows
LookupCall(t) ==
    /\ th[t].pc = "idle"
    /\ th[t].res = "none"
    /\ \E fs \in FsInputs :
          th' = [th EXCEPT ![t] = [IdleFrame EXCEPT !.pc = "run", !.fs = fs]]
    /\ UNCHANGED <<now, inst, proc, instance, svc, verge, seen>>

\* the slot is empty and either variant is the committed one
InitLookup ==
    /\ now = 0
    /\ proc = [p \in ProcIds |-> NoProc]
    /\ th = [t \in Threads |-> IdleFrame]
    /\ svc = [conn |-> FALSE, state |-> "Stopped", state_changed_at |-> 0]
    /\ \E core \in CoreTypes :
          verge = [clash_core |-> core, draft |-> NoCore, enable_service_mode |-> {}]
    /\ seen = NotSeen
    /\ inst = [i \in InstIds |-> NoInst]
    /\ instance = 0

NextLookup ==
    \/ LookupCall(<<"run", 1>>)
    \/ \E t \in {<<"run", 1>>} :
          Run1(t) \/ Run2(t) \/ Run3(t) \/ Run4(t)
             \/ Start1(t) \/ StartRecv(t) \/ StartDrop(t)
    \/ Engine

SpecLookup == InitLookup /\ [][NextLookup]_vars

\* the lookup of run_core() on thread t has been made under its filesystem
Looked(t) == th[t].found # NotLooked

\* nothing was built, installed or launched
NothingStarted == NInst = 0 /\ NProc = 0 /\ instance = 0

\* C14 (as stated): the lookup returns the path in the data directory when the
\* executable is there, else the path in the install directory when it is there,
\* else NotFound naming the executable; then run_core() fails with NotFound and
\* nothing is launched
C14_LookupOrder ==
    \A t \in Runners : Looked(t) =>
        LET fs == th[t].fs
            name == ExeName(verge.clash_core)
            r == th[t].found
        IN  IF name \in fs.data THEN r = Found("data", name)
            ELSE IF name \in fs.install THEN r = Found("install", name)
            ELSE /\ r = NotFound(name)
                 /\ th[t].pc = "idle" /\ th[t].res = "NotFound"
                 /\ NothingStarted

\* C14 (amended): as stated when the install directory can be resolved or the
\* executable is in the data directory; when the executable is not in the data
\* directory and the install directory cannot be resolved, NotFound carries that
\* error instead of the executable's name; every NotFound fails run_core() with
\* nothing launched
C14_LookupOrderResolved ==
    \A t \in Runners : Looked(t) =>
        LET fs == th[t].fs
            name == ExeName(verge.clash_core)
            r == th[t].found
        IN  /\ IF name \in fs.data THEN r = Found("data", name)
               ELSE IF fs.installDir = "err" THEN r = NotFound("app_install_dir")
               ELSE IF name \in fs.install THEN r = Found("install", name)
               ELSE r = NotFound(name)
            /\ ~r.ok => /\ th[t].pc = "idle" /\ th[t].res = "NotFound"
                        /\ NothingStarted

C14_Witness ==
    LET f == th[<<"run", 1>>]
    IN  /\ f.fs = [dataDir |-> "ok", data |-> {"mihomo"},
                   installDir |-> "ok", install |-> {"mihomo"}]
        /\ verge.clash_core = "premium"
        /\ f.found = NotFound("clash")
        /\ f.pc = "idle" /\ f.res = "NotFound"
        /\ NothingStarted

\* ---------------------------------------------------------------- the run type
\* the slot is empty; enable_service_mode is None, Some(false) or Some(true) and
\* the service is connected or not
InitMode ==
    /\ now = 0
    /\ proc = [p \in ProcIds |-> NoProc]
    /\ th = [t \in Threads |-> IdleFrame]
    /\ \E conn \in BOOLEAN :
          svc = [conn |-> conn, state |-> "Stopped", state_changed_at |-> 0]
    /\ \E mode \in {{}, {FALSE}, {TRUE}} :
          verge = [clash_core |-> "premium", draft |-> NoCore, enable_service_mode |-> mode]
    /\ seen = NotSeen
    /\ inst = [i \in InstIds |-> NoInst]
    /\ instance = 0

\* one run_core() and a caller of status()
NextMode ==
    \/ RunCall(<<"run", 1>>)
    \/ \E t \in {<<"run", 1>>} :
          Run1(t) \/ Run2(t) \/ Run3(t) \/ Run4(t)
             \/ Start1(t) \/ StartRecv(t) \/ StartDrop(t)
    \/ Status(Reader)
    \/ Engine
    \/ SvcChange

SpecMode == InitMode /\ [][NextMode]_vars

\* the setting is Some(true) and the service is connected
ServiceWanted == verge.enable_service_mode = {TRUE} /\ svc.conn

\* C15: RunType::default() is Service exactly when enable_service_mode is
\* Some(true) and the service is connected, and Normal otherwise; it is never
\* Elevated and has no failure: checked where run_core() builds an Instance of
\* the resolved type and where status() reports it for an empty slot
C15_ModeResolver ==
    [][/\ \A i \in InstIds :
             (inst[i].kind = "None" /\ inst'[i].kind # "None") =>
                 /\ inst'[i].kind \in {"Child", "Service"}
                 /\ inst'[i].kind = "Service" <=> ServiceWanted
       /\ (seen' # seen /\ instance = 0) =>
             /\ seen'.run_type \in {"Normal", "Service"}
             /\ seen'.run_type = "Service" <=> ServiceWanted]_vars

C15_Witness ==
    /\ inst[1].kind = "Service"
    /\ instance = 1
    /\ verge.enable_service_mode = {TRUE}
    /\ seen.run_type = "Service" /\ seen.empty

\* a step in which run_core() called by t fails at the port check
PortCheckFails(t) ==
    /\ th[t].pc = "run_new"
    /\ th'[t].pc = "idle"
    /\ th'[t].res = "PortUnavailable"

\* that step builds, installs and starts nothing
NothingBuilt ==
    /\ inst' = inst /\ proc' = proc /\ instance' = instance

\* C16 (as stated): run_core() that fails at the port check has not stopped the
\* current Instance and has built, installed and started nothing
C16_PortCheckedFirst ==
    [][\A t \in Runners :
          PortCheckFails(t) => th[t].res = "none" /\ NothingBuilt]_vars

\* C16 (amended): run_core() reaches the port check after a Running current
\* Instance was stopped with success; failing there it has built, installed and
\* started nothing and the slot is unchanged, but an Instance it stopped stays
\* stopped
C16_PortCheckedAfterStop ==
    [][\A t \in Runners :
          PortCheckFails(t) =>
             /\ NothingBuilt
             /\ th[t].res \in {"none", "ok"}
             /\ th[t].res = "ok" =>
                   /\ inst[th[t].inst].state = "Stopped"
                   /\ Alive(th[t].inst) = {}]_vars

C16_Witness ==
    /\ th[<<"run", 1>>].pc = "idle"
    /\ th[<<"run", 1>>].res = "PortUnavailable"
    /\ instance = 1
    /\ NInst = 1
    /\ inst[1].state = "Stopped"
    /\ proc[1].killed

\* C17: run_core() installs the Instance it built before start() is called on
\* it, and returns what start() returned; when start() failed the new Instance,
\* Stopped, is left in the slot; when the port check or the construction failed
\* the slot is left as it was
C17_InstallThenStart ==
    [][\A t \in Runners :
          /\ (th[t].pc = "run_install" /\ th'[t] # th[t]) =>
                /\ instance' = th[t].inst
                /\ th'[t].pc = "start"
                /\ proc' = proc
          /\ (th[t].pc = "start" /\ th'[t] # th[t]) =>
                /\ inst[th[t].inst].slot # "never"
                /\ instance' = instance
          /\ (th[t].pc = "start_drop" /\ th'[t] # th[t]) =>
                /\ th'[t].pc = "idle"
                /\ th'[t].res = th[t].res
                /\ instance' = instance
                /\ th[t].res # "ok" => inst[th[t].inst].state = "Stopped"
          /\ (th[t].pc = "run_new" /\ th'[t].pc = "idle") =>
                instance' = instance /\ inst' = inst]_vars

C17_Witness ==
    /\ th[<<"run", 1>>].pc = "idle"
    /\ th[<<"run", 1>>].res = "SpawnError"
    /\ th[<<"run", 1>>].inst = 2
    /\ instance = 2
    /\ inst[2].state = "Stopped"
    /\ Alive(2) = {}

\* Instance i has been in the slot, is no longer in it, and no call still holds it
Dropped(i) ==
    /\ inst[i].slot # "never"
    /\ instance # i
    /\ \A t \in Threads : th[t].pc \in {"idle", "panicked"} \/ th[t].inst # i

\* C18 (as stated): an Instance that left the slot, overwritten by run_core() or
\* taken by recover_core(), is not Running once it is dropped, whatever the
\* outcome of its stop()
C18_DroppedIsStopped ==
    \A i \in InstIds : Dropped(i) => inst[i].state # "Running"

\* C19 (as stated): with run_core() and recover_core() running beside it, a
\* status() made once an Instance has been installed reports an Instance, the old
\* or the new one, and never an empty slot as Stopped with timestamp 0
C19_ReaderSeesOldOrNew ==
    ~(/\ seen.installed
      /\ seen.empty
      /\ seen.state = "Stopped"
      /\ seen.ts = 0)

\* a step in which the run_core() called by recover_core() on thread t returns
RecoverRunReturns(t) ==
    /\ th[t].stk = <<"recover_ran">>
    /\ th'[t].stk = <<>>
    /\ th'[t].pc # "panicked"

\* the recovery threads other than t that the step starts
Retries(t) ==
    {r \in Recoverers \ {t} : th[r].pc = "idle" /\ th'[r].pc = "recover"}

\* C20: a recover_core() whose run_core() failed sleeps, spawns exactly one more
\* recover_core() on a thread of its own and returns Ok without waiting for it;
\* one whose run_core() succeeded returns Ok and spawns nothing, which ends the
\* chain; a recovery thread that returned can be used by the next retry, so the
\* number of attempts has no bound
C20_RetryChain ==
    [][\A t \in Recoverers :
          /\ RecoverRunReturns(t) =>
                IF th'[t].res = "ok"
                THEN th'[t].pc = "idle" /\ Retries(t) = {}
                ELSE th'[t].pc = "recover_sleep" /\ Retries(t) = {}
          /\ (th[t].pc = "recover_sleep" /\ th'[t] # th[t]) =>
                /\ th'[t].pc = "idle" /\ th'[t].res = "ok"
                /\ Cardinality(Retries(t)) = 1]_vars

C20_Witness ==
    /\ th[<<"recover", 1>>].pc = "idle"
    /\ th[<<"recover", 1>>].res = "ok"
    /\ th[<<"recover", 2>>].pc = "recover"
    /\ instance = 0
    /\ NInst = 1

\* C21 (as stated): start() of a Child Instance returns once the first of a spawn
\* error, a termination or the checkpoint has been handled, Ok exactly when the
\* checkpoint came first, and this for every termination, a graceful one before
\* the checkpoint included: start() never aborts without a result
C21_StartAlwaysReturns ==
    \A t \in Threads :
        /\ th[t].pc # "panicked"
        /\ th[t].pc = "start_drop" => (th[t].res = "ok" <=> proc[th[t].proc].cp)

\* ---- one start() of a Child Instance, the output of its process and the end
\* ---- of its event stream
DrainCall(t) ==
    /\ th[t].pc = "idle"
    /\ instance # 0 /\ NProc = 0
    /\ th' = [th EXCEPT ![t] = [IdleFrame EXCEPT !.pc = "start", !.inst = instance]]
    /\ UNCHANGED <<now, inst, proc, instance, svc, verge, seen>>

InitDrain ==
    /\ InitCommon
    /\ inst = [i \in InstIds |-> IF i = 1 THEN NewInstance("Normal", "premium")
                                 ELSE NoInst]
    /\ instance = 1

NextDrain ==
    \/ DrainCall(Client)
    \/ Start1(Client) \/ StartRecv(Client) \/ StartDrop(Client)
    \/ \E p \in ProcIds :
          DrainRun(p) \/ LibCheckpoint(p) \/ LibExit(p) \/ LibError(p)
             \/ LibLine(p) \/ LibClose(p)
             \/ DrainObserved(p) \/ DrainNone(p)

SpecDrain == InitDrain /\ [][NextDrain]_vars

\* C22 (as stated): the drain task of a Child Instance ends once its event stream
\* has ended, whether or not an Error or a Terminated event came before: after an
\* iteration of the loop that found the stream ended the task is done
C22_DrainEndsWithStream ==
    \A p \in ProcIds : proc[p].spun => proc[p].dpc = "done"

\* the exit statuses C23 calls abnormal: a non-zero exit code, or a signal other
\* than 9 and 15
StatedAbnormal(status) ==
    \/ ~(status.code \in {NoneV, 0})
    \/ ~(status.signal \in {NoneV, 9, 15})

\* C23 (as stated): a termination is handled as abnormal exactly when its exit
\* code is non-zero or it carries a signal other than 9 and 15; every other one
\* (a zero exit code, or signal 9 or 15) is graceful and starts no recovery
C23_AbnormalExactly ==
    \A p \in ProcIds :
        proc[p].status # NoStatus =>
            /\ proc[p].term = "abnormal" <=> StatedAbnormal(proc[p].status)
            /\ proc[p].term = "graceful" => proc[p].recovers = 0

\* C24 (as stated): err_buf never holds more than 6 lines, and every stderr line
\* it received has also gone to the log
C24_ErrBufBounded ==
    \A p \in ProcIds :
        /\ Len(proc[p].err_buf) <= ErrBufCapacity
        /\ \A k \in 1..Len(proc[p].err_buf) :
              \E j \in 1..Len(proc[p].logged) : proc[p].logged[j] = proc[p].err_buf[k]

\* start() by thread t drops its receiver with the error of an abnormal
\* termination, handled with kill_flag unset, still in the channel
AbsorbedByChannel(t) ==
    /\ th[t].pc = "start_drop" /\ th'[t] # th[t]
    /\ proc[th[t].proc].chan = <<"Terminated">>
    /\ proc[th[t].proc].term = "abnormal" /\ ~proc[th[t].proc].flag
    /\ proc[th[t].proc].recovers = 0

\* C25 (as stated): an abnormal termination handled with kill_flag unset is
\* returned by start() or starts recover_core(); one that arrives after start()
\* has received the Ok and before it drops its receiver is not absorbed by the
\* channel
C25_NoTerminationLost ==
    [][\A t \in Threads : ~AbsorbedByChannel(t)]_vars

\* the stop() that recover_core() called in thread t kills a live process
RecoverKills(t) ==
    /\ th[t].pc = "stop_kill"
    /\ th[t].stk # <<>> /\ Head(th[t].stk) = "recover_stopped"
    /\ \E p \in Alive(th[t].inst) : ~proc'[p].alive

\* C26 (as stated): recover_core() started by the abnormal termination of an
\* Instance tears down that Instance only: it never stops an Instance none of
\* whose processes terminated abnormally, such as a newer one run_core() has
\* installed and started in between
C26_RecoverStopsOnlyItsOwn ==
    [][\A t \in Recoverers :
          RecoverKills(t) =>
              \E p \in ProcIds : proc[p].inst = th[t].inst /\ proc[p].term = "abnormal"]_vars

\* the recovery threads at work: inside recover_core() or in its sleep before
\* the retry
Recovering == {t \in Recoverers : ~(th[t].pc \in {"idle", "panicked"})}

\* C27 (as stated): at most one recover_core() is in progress at any time, its
\* pending retry included; no second chain starts while one is at work or asleep
C27_OneRecoverAtATime ==
    Cardinality(Recovering) <= 1

\* stop() by thread t on a Child Instance returns the error of child.kill()
KillFails(t) ==
    /\ th[t].pc = "stop_kill"
    /\ inst[th[t].inst].kind = "Child"
    /\ th'[t] # th[t] /\ th'[t].res = "KillFailed"

\* C28 (as stated): when stop() on a Running Child Instance fails in child.kill(),
\* the Instance is left with kill_flag unset and its timestamp unchanged
C28_FailedKillLeavesFlagUnset ==
    [][\A t \in Threads :
          KillFails(t) =>
              /\ ~inst'[th[t].inst].kill_flag
              /\ inst'[th[t].inst].stated_changed_at = inst[th[t].inst].stated_changed_at]_vars

\* the run_core() init() spawned has returned an error, which log_err! logs
InitRunFailed ==
    /\ th[<<"run", 1>>].pc = "idle"
    /\ ~(th[<<"run", 1>>].res \in {"none", "ok"})

\* C29: when the run_core() of init() fails (port unavailable, no Instance built,
\* spawn error, termination before the checkpoint) nothing follows the error: no
\* recovery thread has been spawned, no thread is at work, and no engine runs
C29_InitFailureOnlyLogged ==
    InitRunFailed =>
        /\ \A t \in Threads : th[t].pc = "idle"
        /\ \A p \in ProcIds : ~proc[p].alive /\ proc[p].recovers = 0
        /\ \A i \in InstIds : inst[i].kind # "None" => StateOf(i) = "Stopped"

\* C29 witness: the process of init()'s Instance ended before the checkpoint and
\* start() returned the error
C29_Witness ==
    /\ InitRunFailed
    /\ th[<<"run", 1>>].res = "Terminated"
    /\ \E p \in ProcIds : proc[p].term = "abnormal" /\ ~proc[p].cp /\ ~proc[p].flag

\* ---------------------------------------------------------------- tray proxies
\* Option<String>: None is the empty sequence, Some(x) the sequence of x
Some(x) == <<x>>
ProxyNames == {"a", "b"}
GroupNames == {"g1", "g2"}
Currents == {<<>>} \cup {Some(x) : x \in ProxyNames}
AllLists == {<<>>, <<"a">>, <<"a", "b">>, <<"b", "a">>}

\* TrayProxyItem without its type, which diff_proxies does not read
TrayProxyItems == [current : Currents, all : AllLists]

\* TrayProxies: an IndexMap, the entries in insertion order, the keys distinct
TrayInputs ==
    {<<>>}
      \cup {<<[name |-> g, item |-> x]>> : g \in GroupNames, x \in TrayProxyItems}
      \cup {<<[name |-> g, item |-> x], [name |-> h, item |-> y]>> :
               <<g, h>> \in {<<"g1", "g2">>, <<"g2", "g1">>},
               <<x, y>> \in TrayProxyItems \X TrayProxyItems}

\* IndexMap::get(group).unwrap() on a map that holds the key
Get(proxies, group) ==
    proxies[CHOOSE k \in 1..Len(proxies) : proxies[k].name = group].item

\* the positions at which two zipped lists are equal
Matching(a, b) ==
    Cardinality({k \in 1..Len(a) : k <= Len(b) /\ a[k] = b[k]})

Keys(proxies) == [k \in 1..Len(proxies) |-> proxies[k].name]

UpdateFull == [kind |-> "Full", actions |-> <<>>]
UpdateNone == [kind |-> "None", actions |-> <<>>]
UpdatePart(actions) == [kind |-> "Part", actions |-> actions]
\* Option::unwrap() of a None
UnwrapAbort == [kind |-> "Abort", actions |-> <<>>]

\* step 3 of diff_proxies: the groups of the new map in order, from position k
RECURSIVE DiffGroups(_, _, _, _)
DiffGroups(old_proxies, new_proxies, k, actions) ==
    IF k > Len(new_proxies)
    THEN IF actions = <<>> THEN UpdateNone ELSE UpdatePart(actions)
    ELSE LET group == new_proxies[k].name
             item == new_proxies[k].item
             old_item == Get(old_proxies, group)
         IN  IF Len(item.all) # Len(old_item.all) THEN UpdateFull
             ELSE IF Matching(item.all, old_item.all) # Len(old_item.all) THEN UpdateFull
             ELSE IF item.current # old_item.current
             THEN IF old_item.current = <<>> \/ item.current = <<>>
                  THEN UnwrapAbort
                  ELSE DiffGroups(old_proxies, new_proxies, k + 1,
                                  Append(actions, <<group, old_item.current[1],
                                                    item.current[1]>>))
             ELSE DiffGroups(old_proxies, new_proxies, k + 1, actions)

\* diff_proxies
DiffProxies(old_proxies, new_proxies) ==
    IF Len(old_proxies) # Len(new_proxies) THEN UpdateFull
    ELSE IF Matching(Keys(new_proxies), Keys(old_proxies)) # Len(old_proxies)
    THEN UpdateFull
    ELSE DiffGroups(old_proxies, new_proxies, 1, <<>>)

\* proxies_updated_receiver: the diff of the map it holds with the current one
Diff1(t) ==
    /\ th[t].pc = "diff"
    /\ th' = [th EXCEPT ![t].pc = "diffed",
                        ![t].update = DiffProxies(th[t].old_proxies, th[t].new_proxies)]
    /\ UNCHANGED <<now, inst, proc, instance, svc, verge, seen>>

\* the map held and the current map
InitDiff ==
    /\ now = 0
    /\ proc = [p \in ProcIds |-> NoProc]
    /\ inst = [i \in InstIds |-> NoInst]
    /\ instance = 0
    /\ svc = [conn |-> FALSE, state |-> "Stopped", state_changed_at |-> 0]
    /\ verge = [clash_core |-> "premium", draft |-> NoCore, enable_service_mode |-> {}]
    /\ seen = NotSeen
    /\ \E o \in TrayInputs, n \in TrayInputs :
          th = [t \in Threads |->
                  IF t = Tray
                  THEN [IdleFrame EXCEPT !.pc = "diff", !.old_proxies = o,
                                         !.new_proxies = n]
                  ELSE IdleFrame]

NextDiff == Diff1(Tray)

SpecDiff == InitDiff /\ [][NextDiff]_vars

\* the two maps differ in the number of groups, in the name of a group at some
\* position or in the list of proxies of a group
ListsDiffer(o, n) ==
    \/ Len(o) # Len(n)
    \/ \E k \in 1..Len(n) :
          \/ o[k].name # n[k].name
          \/ o[k].item.all # n[k].item.all

\* the positions of the groups whose current selection changed
Changed(o, n) == {k \in 1..Len(n) : o[k].item.current # n[k].item.current}

\* C30 (as stated): diff_proxies returns Full exactly when the maps differ in
\* their groups or in a group's list of proxies; otherwise None exactly when no
\* current selection changed; otherwise Part with one action for each group whose
\* selection changed, in the order of the new map
C30_DiffProxies ==
    th[Tray].pc = "diffed" =>
        LET o == th[Tray].old_proxies
            n == th[Tray].new_proxies
            u == th[Tray].update
        IN  /\ u.kind = "Full" <=> ListsDiffer(o, n)
            /\ ~ListsDiffer(o, n) =>
                  /\ u.kind = "None" <=> Changed(o, n) = {}
                  /\ Changed(o, n) # {} =>
                        /\ u.kind = "Part"
                        /\ Len(u.actions) = Cardinality(Changed(o, n))
                        /\ \A j \in 1..Len(u.actions) :
                              \E k \in Changed(o, n) :
                                 /\ Cardinality({m \in Changed(o, n) : m <= k}) = j
                                 /\ u.actions[j] = <<n[k].name, o[k].item.current[1],
                                                     n[k].item.current[1]>>

\* C31 (as stated): diff_proxies returns a result without aborting for every pair
\* of maps, those with the same groups and proxy lists and a group whose current
\* selection is None in exactly one of the two maps included
C31_DiffNeverAborts ==
    th[Tray].pc = "diffed" => th[Tray].update.kind \in {"Full", "None", "Part"}

====
